---- MODULE Spec2Model ----
(***************************************************************************)
(* A model of the Wikipedia scientist scraper: the Crawler (crawl state,   *)
(* frontier queue, visited set, failure log, checkpoint file) of           *)
(* src/scraper/crawler.py, the orchestrator loop main() of                 *)
(* src/scraper/manager.py, the retry loop fetch_with_retry of              *)
(* src/scraper/fetcher.py and the link filter extract_links of             *)
(* src/scraper/parser.py.                                                  *)
(*                                                                         *)
(* URLs are numbered.  1..4 stand for the four seed URLs, in the order of  *)
(* Crawler.seed_urls: 1 = /wiki/Albert_Einstein, 2 = /wiki/Marie_Curie,    *)
(* 3 = /wiki/Isaac_Newton, 4 = /wiki/Charles_Darwin; the numbers above 4   *)
(* are other /wiki/ article paths.  The slug of a URL (extract_slug) is    *)
(* the path without its /wiki/ prefix and is one-to-one on these URLs, so  *)
(* the raw and processed artifact stores are keyed by the URL number.      *)
(*                                                                         *)
(* A FailedUrl is modelled by its url and reason; its timestamp is a       *)
(* capture-time string that no operation reads and that the dump and the   *)
(* load carry unchanged.                                                   *)
(***************************************************************************)
EXTENDS Integers, Sequences, FiniteSets, TLC

\* ------------------------------------------------------------- bounds
\* Article URLs other than the four seeds.
NumExtra == 1
\* Longest link list parse_article returns in the model.
MaxLinks == 1
\* Largest session target (--count) tried.
MaxTarget == 2
\* Crawler method calls made, in all, by callers other than main().
MaxOps == 3
\* Largest max_retries fetch_with_retry is called with.
MaxRetries == 7
\* Most anchors in the paragraphs of a page given to extract_links.
MaxHrefs == 4

\* ---------------------------------------------------------- constants
\* Crawler.seed_urls
seed_urls == <<1, 2, 3, 4>>
\* Python's None, the empty signal of get_next_url; no URL has this number.
None == 0

URLs == 1..(Len(seed_urls) + NumExtra)

\* ------------------------------------------------------------ helpers
\* Python's  x in sequence
InSeq(s, x) == \E i \in 1..Len(s) : s[i] = x

\* The elements of a sequence.
Range(s) == {s[i] : i \in 1..Len(s)}

\* All sequences over S of length at most n.
SeqsUpTo(S, n) == UNION {[1..k -> S] : k \in 0..n}

\* A set of URLs written out as a list, in ascending and in descending order.
RECURSIVE Ascending(_)
Ascending(S) ==
    IF S = {} THEN <<>>
    ELSE LET m == CHOOSE x \in S : \A y \in S : x <= y
         IN  <<m>> \o Ascending(S \ {m})

Reverse(s) == [i \in 1..Len(s) |-> s[Len(s) + 1 - i]]

\* The orders in which the model lets a set be iterated.  Python leaves the
\* iteration order of a set of strings open; two opposite orders stand for it.
Orderings(S) == {Ascending(S), Reverse(Ascending(S))}

\* The number of entries of the failure log for url.
RECURSIVE FailureCount(_, _)
FailureCount(failed, url) ==
    IF failed = <<>> THEN 0
    ELSE (IF Head(failed).url = url THEN 1 ELSE 0) + FailureCount(Tail(failed), url)

\* ------------------------------------------------- crawler.py: Crawler
\* CrawlStatistics()
CrawlStatistics == [total_completed |-> 0, total_queued |-> 0, total_failed |-> 0]

\* CrawlState()
CrawlState ==
    [completed |-> {}, queued |-> <<>>, failed |-> <<>>, statistics |-> CrawlStatistics]

\* FailedUrl(url=url, reason=str(reason))
FailedUrl(url, reason) == [url |-> url, reason |-> reason]

\* get_next_url with pop() in place of popleft().
get_next_url_PopRight(st) ==
    IF st.queued = <<>>
    THEN [ret |-> None, state |-> st]
    ELSE [ret |-> st.queued[Len(st.queued)],
          state |-> [st EXCEPT !.queued = SubSeq(@, 1, Len(@) - 1)]]

\* Crawler.get_next_url: the returned value and the state it leaves.
get_next_url(st) ==
    IF st.queued = <<>>
    THEN [ret |-> None, state |-> st]
    ELSE [ret |-> Head(st.queued), state |-> [st EXCEPT !.queued = Tail(@)]]

\* _add_url without its test of the queue.
add_url_NoQueuedTest(st, url) ==
    IF url \notin st.completed
    THEN [st EXCEPT !.queued = Append(@, url)]
    ELSE st

\* _add_url without its test of the completed set.
add_url_NoCompletedTest(st, url) ==
    IF ~InSeq(st.queued, url)
    THEN [st EXCEPT !.queued = Append(@, url)]
    ELSE st

\* Crawler._add_url
_add_url(st, url) ==
    IF url \notin st.completed /\ ~InSeq(st.queued, url)
    THEN [st EXCEPT !.queued = Append(@, url)]
    ELSE st

\* Crawler.add_urls: _add_url on each URL, in input order.
RECURSIVE add_urls(_, _)
add_urls(st, urls) ==
    IF urls = <<>> THEN st
    ELSE add_urls(_add_url(st, Head(urls)), Tail(urls))

\* Crawler.mark_completed
mark_completed(st, url) == [st EXCEPT !.completed = @ \cup {url}]

\* The failure log keeping its newest entry only.
log_failure_NewestOnly(st, url, reason) ==
    [st EXCEPT !.failed = <<FailedUrl(url, reason)>>]

\* Crawler.log_failure
log_failure(st, url, reason) ==
    [st EXCEPT !.failed = Append(@, FailedUrl(url, reason))]

\* ------------------------------------------- crawler.py: the checkpoint
\* The contents of progress.json.
\*   missing : no such file
\*   garbage : json.load raises (an empty, truncated or otherwise corrupt file)
\*   falsy   : valid JSON that is falsy in Python ({}, [], null, 0, "")
\*   badshape: valid, truthy JSON that CrawlState(**data) rejects
\*   json    : a dump of a CrawlState; completed is written as a JSON array
NoFile == [kind |-> "missing"]
GarbageFile == [kind |-> "garbage"]
FalsyFile == [kind |-> "falsy"]
BadShapeFile == [kind |-> "badshape"]

\* A checkpoint an earlier run of main() leaves: three runs, each interrupted
\* after get_next_url, have taken the first three seeds off the queue.
EarlierCheckpoint ==
    [kind |-> "json",
     completed |-> <<>>,
     queued |-> <<4>>,
     failed |-> <<>>,
     statistics |-> [total_completed |-> 0, total_queued |-> 1, total_failed |-> 0]]

\* What progress.json may hold when a caller's first process starts.
InitFiles == {NoFile, GarbageFile, FalsyFile, BadShapeFile, EarlierCheckpoint}

\* What progress.json may hold when main() starts: no file (a first run) or
\* the checkpoint of an earlier run.
MainInitFiles == {NoFile, EarlierCheckpoint}

\* The statistics as save_progress recomputes them.
UpdateStatistics(st) ==
    [st EXCEPT !.statistics =
        [total_completed |-> Cardinality(st.completed),
         total_queued |-> Len(st.queued),
         total_failed |-> Len(st.failed)]]

\* state.model_dump_json(): the set completed is serialised as an array, in
\* the iteration order of the set, given here as order.
model_dump_json(st, order) ==
    [kind |-> "json",
     completed |-> order,
     queued |-> st.queued,
     failed |-> st.failed,
     statistics |-> st.statistics]

\* CrawlState(**data): the array completed is validated into a set.
ParseCrawlState(f) ==
    [completed |-> Range(f.completed),
     queued |-> f.queued,
     failed |-> f.failed,
     statistics |-> f.statistics]

\* Crawler._load_progress, from the CrawlState() that __init__ has just set.
_load_progress(f) ==
    IF f.kind = "json" THEN ParseCrawlState(f) ELSE CrawlState

\* __init__ seeding whatever was loaded.
Crawler_AlwaysSeeds(f) == add_urls(_load_progress(f), seed_urls)

\* Crawler.__init__: load, then seed if nothing is queued or completed.
Crawler(f) ==
    LET st == _load_progress(f)
    IN  IF st.queued = <<>> /\ st.completed = {}
        THEN add_urls(st, seed_urls)
        ELSE st

\* save_progress writing the dump without recomputing the statistics.
save_progress_file_StaleStatistics(st, f, io, order) ==
    CASE io = "ok" -> model_dump_json(st, order)
      [] io = "open_failed" -> f
      [] io = "write_failed" -> [kind |-> "garbage"]

\* Crawler.save_progress: the statistics are recomputed in the live state, then
\* the dump is written.  io is what the file system does: the write succeeds,
\* open() fails (the file is left as it was), or the write fails after open()
\* has truncated the file; the exception is logged and swallowed.
save_progress_state(st) == UpdateStatistics(st)

save_progress_file(st, f, io, order) ==
    CASE io = "ok" -> model_dump_json(UpdateStatistics(st), order)
      [] io = "open_failed" -> f
      [] io = "write_failed" -> GarbageFile

SaveOutcomes == {"ok", "open_failed", "write_failed"}

\* What last and saved hold before any call and any save.
NoCall == [op |-> "none", url |-> None]
NoSave == [kind |-> "none"]

\* The history of the save: the state a written dump was taken of.
SavedAfter(sv, st, io) ==
    CASE io = "ok" -> [kind |-> "state", state |-> UpdateStatistics(st)]
      [] io = "open_failed" -> sv
      [] io = "write_failed" -> NoSave

\* ---------------------------------------------------------------- state
VARIABLES
    state,              \* crawler.state, the CrawlState of the live Crawler
    file,               \* the contents of progress.json
    raw,                \* the URLs whose raw HTML file exists (output_dirs['raw'])
    words_store,        \* the URLs whose processed files exist (output_dirs['words'])
    pc,                 \* the position of main(), or of the Crawler's caller
    url,                \* main's url
    session_target,     \* main's session_target (args.count)
    session_collected,  \* main's session_collected
    total_collected,    \* main's total_collected
    terminal,           \* how the loop stopped: RUNNING until it does
    marks,              \* history: mark_completed calls of the current iteration
    saves,              \* history: save_progress calls of this run
    fetch_failed,       \* history: the URLs for which fetch_article returned None
    ret,                \* the value the last get_next_url returned
    arrival,            \* history: the queued URLs in the order they were appended
    nops,               \* history: the number of Crawler calls made by callers
    last,               \* history: the last Crawler call of the caller
    saved,              \* history: the CrawlState at the last save that was written
    threw,              \* history: who swallowed an exception in the current iteration
    fw,                 \* the frame of a call of fetch_with_retry
    xl                  \* the frame of a call of extract_links

vars == <<state, file, raw, words_store, pc, url, session_target,
          session_collected, total_collected, terminal, marks, saves,
          fetch_failed, ret, arrival, nops, last, saved, threw, fw, xl>>

\* No call of fetch_with_retry or of extract_links is in progress.
NoFrame == [pc |-> "idle"]

\* The link lists parse_article may return (deduplicate_links may be off).
LinkLists == SeqsUpTo(URLs, MaxLinks)

\* The positions of main() inside the while loop.
InLoop == {"quota", "dequeue", "fetch", "log_fail", "mark_fail", "classify",
           "mark_rej", "remove_raw", "parse", "save_processed", "add_urls",
           "mark_ok", "count", "exc_log", "exc_mark"}

\* ------------------------------------------------- manager.py: main()
\* The process starts with empty output directories.
Init ==
    /\ state = CrawlState
    /\ file \in MainInitFiles
    /\ raw = {}
    /\ words_store = {}
    /\ pc = "start"
    /\ url = None
    /\ session_target \in 0..MaxTarget
    /\ session_collected = 0
    /\ total_collected = 0
    /\ terminal = "RUNNING"
    /\ marks = 0
    /\ saves = 0
    /\ fetch_failed = {}
    /\ ret = None
    /\ arrival = <<>>
    /\ nops = 0
    /\ last = NoCall
    /\ saved = NoSave
    /\ threw = "none"
    /\ fw = NoFrame
    /\ xl = NoFrame

\* crawler = Crawler(); session_collected = 0; total_collected = get_collected_count()
Start ==
    /\ pc = "start"
    /\ state' = Crawler(file)
    /\ session_collected' = 0
    /\ total_collected' = Cardinality(words_store)
    /\ pc' = "quota"
    /\ UNCHANGED <<file, raw, words_store, url, session_target, terminal,
                   marks, saves, fetch_failed, ret, arrival, nops, last, saved, threw,
                   fw, xl>>

\* The quota test with > in place of >=.
QuotaCheck_StrictlyGreater ==
    /\ pc = "quota"
    /\ IF session_collected > session_target
       THEN /\ terminal' = "DONE_QUOTA"
            /\ pc' = "finally"
       ELSE /\ terminal' = terminal
            /\ pc' = "dequeue"
    /\ UNCHANGED <<state, file, raw, words_store, url, session_target,
                   session_collected, total_collected, marks, saves,
                   fetch_failed, ret, arrival, nops, last, saved, threw,
                   fw, xl>>

\* if session_collected >= session_target: break
QuotaCheck ==
    /\ pc = "quota"
    /\ IF session_collected >= session_target
       THEN /\ terminal' = "DONE_QUOTA"
            /\ pc' = "finally"
       ELSE /\ terminal' = terminal
            /\ pc' = "dequeue"
    /\ UNCHANGED <<state, file, raw, words_store, url, session_target,
                   session_collected, total_collected, marks, saves,
                   fetch_failed, ret, arrival, nops, last, saved, threw,
                   fw, xl>>

\* url = crawler.get_next_url(); if not url: break
Dequeue ==
    /\ pc = "dequeue"
    /\ LET r == get_next_url(state)
       IN  /\ state' = r.state
           /\ url' = r.ret
           /\ IF r.ret = None
              THEN /\ terminal' = "DONE_EMPTY"
                   /\ pc' = "finally"
              ELSE /\ terminal' = terminal
                   /\ pc' = "fetch"
    /\ marks' = 0
    /\ UNCHANGED <<file, raw, words_store, session_target,
                   session_collected, total_collected, saves, fetch_failed,
                   ret, arrival, nops, last, saved, threw,
                   fw, xl>>

\* raw_path = fetcher.fetch_article(url): the path of the raw file if it
\* exists already, else the download, which either stores the raw file or
\* ends in an exception that fetch_article turns into None.
Fetch ==
    /\ pc = "fetch"
    /\ IF url \in raw
       THEN /\ pc' = "classify"
            /\ UNCHANGED <<raw, fetch_failed>>
       ELSE \E downloaded \in BOOLEAN :
              IF downloaded
              THEN /\ raw' = raw \cup {url}
                   /\ pc' = "classify"
                   /\ UNCHANGED fetch_failed
              ELSE /\ fetch_failed' = fetch_failed \cup {url}
                   /\ pc' = "log_fail"
                   /\ UNCHANGED raw
    /\ UNCHANGED <<state, file, words_store, url, session_target,
                   session_collected, total_collected, terminal, marks, saves,
                   ret, arrival, nops, last, saved, threw,
                   fw, xl>>

\* The failed download tried again by the loop, with nothing recorded.
LogFetchFailure_Retry ==
    /\ pc = "log_fail"
    /\ pc' = "fetch"
    /\ UNCHANGED <<state, file, raw, words_store, url, session_target,
                   session_collected, total_collected, terminal, marks, saves,
                   fetch_failed, ret, arrival, nops, last, saved, threw,
                   fw, xl>>

\* if not raw_path: crawler.log_failure(url, "Download failed")
LogFetchFailure ==
    /\ pc = "log_fail"
    /\ state' = log_failure(state, url, "Download failed")
    /\ pc' = "mark_fail"
    /\ UNCHANGED <<file, raw, words_store, url, session_target,
                   session_collected, total_collected, terminal, marks, saves,
                   fetch_failed, ret, arrival, nops, last, saved, threw,
                   fw, xl>>

\* The failed fetch continuing without mark_completed.
MarkFetchFailure_NoMark ==
    /\ pc = "mark_fail"
    /\ pc' = "quota"
    /\ UNCHANGED <<state, file, raw, words_store, url, session_target,
                   session_collected, total_collected, terminal, marks, saves,
                   fetch_failed, ret, arrival, nops, last, saved, threw,
                   fw, xl>>

\* crawler.mark_completed(url); continue
MarkFetchFailure ==
    /\ pc = "mark_fail"
    /\ state' = mark_completed(state, url)
    /\ marks' = marks + 1
    /\ pc' = "quota"
    /\ UNCHANGED <<file, raw, words_store, url, session_target,
                   session_collected, total_collected, terminal, saves,
                   fetch_failed, ret, arrival, nops, last, saved, threw,
                   fw, xl>>

\* if not is_scientist_article(raw_path): the classifier reads the raw file
\* and answers True or False, or an exception is raised inside it, which its
\* own except clause logs as a warning and answers with False.  A raw file
\* that was classified as a scientist's before, which is the case of a URL
\* with processed files, is classified so again.
Classify ==
    /\ pc = "classify"
    /\ \E answer \in {"scientist", "other", "exception"} :
        /\ url \in words_store => answer = "scientist"
        /\ pc' = IF answer = "scientist" THEN "parse" ELSE "mark_rej"
        /\ threw' = IF answer = "exception" THEN "classifier" ELSE "none"
    /\ UNCHANGED <<state, file, raw, words_store, url, session_target,
                   session_collected, total_collected, terminal, marks, saves,
                   fetch_failed, ret, arrival, nops, last, saved, fw, xl>>

\* The rejection recorded in the failure log as well.
MarkRejected_LogsFailure ==
    /\ pc = "mark_rej"
    /\ state' = mark_completed(log_failure(state, url, "Not a scientist"), url)
    /\ marks' = marks + 1
    /\ pc' = "remove_raw"
    /\ UNCHANGED <<file, raw, words_store, url, session_target,
                   session_collected, total_collected, terminal, saves,
                   fetch_failed, ret, arrival, nops, last, saved, threw,
                   fw, xl>>

\* not a scientist: crawler.mark_completed(url)
MarkRejected ==
    /\ pc = "mark_rej"
    /\ state' = mark_completed(state, url)
    /\ marks' = marks + 1
    /\ pc' = "remove_raw"
    /\ UNCHANGED <<file, raw, words_store, url, session_target,
                   session_collected, total_collected, terminal, saves,
                   fetch_failed, ret, arrival, nops, last, saved, threw,
                   fw, xl>>

\* os.remove(raw_path); continue.  (On an OSError the file stays and a warning
\* is logged; the run never reads that file again, url being completed.)
RemoveRaw ==
    /\ pc = "remove_raw"
    /\ raw' = raw \ {url}
    /\ pc' = "quota"
    /\ threw' = "none"
    /\ UNCHANGED <<state, file, words_store, url, session_target,
                   session_collected, total_collected, terminal, marks, saves,
                   fetch_failed, ret, arrival, nops, last, saved, fw, xl>>

\* words, links = parser.parse_article(raw_path): parse_article reads the raw
\* file and changes nothing; an exception raised inside it is caught by its
\* own except clause, logged, and answered with no words and no links.  The
\* link list it returns is read by add_urls alone and is drawn there.
Parse ==
    /\ pc = "parse"
    /\ \E parsed \in BOOLEAN :
        threw' = IF parsed THEN "none" ELSE "parser"
    /\ pc' = "save_processed"
    /\ UNCHANGED <<state, file, raw, words_store, url, session_target,
                   session_collected, total_collected, terminal, marks, saves,
                   fetch_failed, ret, arrival, nops, last, saved, fw, xl>>

\* pipeline.save_processed_data(article_slug, words, links): the files are
\* written, or open()/write() raises an OSError, which is an Exception.
SaveProcessed ==
    /\ pc = "save_processed"
    /\ \E written \in BOOLEAN :
        IF written
        THEN /\ words_store' = words_store \cup {url}
             /\ pc' = "add_urls"
        ELSE /\ words_store' = words_store
             /\ pc' = "exc_log"
    /\ UNCHANGED <<state, file, raw, url, session_target,
                   session_collected, total_collected, terminal, marks, saves,
                   fetch_failed, ret, arrival, nops, last, saved, threw,
                   fw, xl>>

\* crawler.add_urls(links), for the link list parse_article returned: the
\* empty list if parse_article caught an exception, else any link list,
\* except that a URL processed again (it is completed already, and
\* its raw file was parsed before) yields the links it yielded then, all of
\* which add_urls has seen.
AddUrls ==
    /\ pc = "add_urls"
    /\ \E l \in LinkLists :
        /\ threw = "parser" => l = <<>>
        /\ url \in state.completed =>
             Range(l) \subseteq state.completed \cup Range(state.queued) \cup {url}
        /\ state' = add_urls(state, l)
    /\ pc' = "mark_ok"
    /\ UNCHANGED <<file, raw, words_store, url, session_target,
                   session_collected, total_collected, terminal, marks, saves,
                   fetch_failed, ret, arrival, nops, last, saved, threw,
                   fw, xl>>

\* crawler.mark_completed(url)
MarkAccepted ==
    /\ pc = "mark_ok"
    /\ state' = mark_completed(state, url)
    /\ marks' = marks + 1
    /\ pc' = "count"
    /\ UNCHANGED <<file, raw, words_store, url, session_target,
                   session_collected, total_collected, terminal, saves,
                   fetch_failed, ret, arrival, nops, last, saved, threw,
                   fw, xl>>

\* session_collected += 1; total_collected += 1
Count ==
    /\ pc = "count"
    /\ session_collected' = session_collected + 1
    /\ total_collected' = total_collected + 1
    /\ pc' = "quota"
    /\ threw' = "none"
    /\ UNCHANGED <<state, file, raw, words_store, url, session_target,
                   terminal, marks, saves, fetch_failed, ret, arrival, nops,
                   last, saved, fw, xl>>

\* except Exception as e: crawler.log_failure(url, str(e))
ExceptLog ==
    /\ pc = "exc_log"
    /\ state' = log_failure(state, url, "OSError")
    /\ pc' = "exc_mark"
    /\ UNCHANGED <<file, raw, words_store, url, session_target,
                   session_collected, total_collected, terminal, marks, saves,
                   fetch_failed, ret, arrival, nops, last, saved, threw,
                   fw, xl>>

\* The exception handler without its mark_completed.
ExceptMark_NoMark ==
    /\ pc = "exc_mark"
    /\ pc' = "quota"
    /\ threw' = "none"
    /\ UNCHANGED <<state, file, raw, words_store, url, session_target,
                   session_collected, total_collected, terminal, marks, saves,
                   fetch_failed, ret, arrival, nops, last, saved, fw, xl>>

\* crawler.mark_completed(url)  # Mark tried
ExceptMark ==
    /\ pc = "exc_mark"
    /\ state' = mark_completed(state, url)
    /\ marks' = marks + 1
    /\ pc' = "quota"
    /\ threw' = "none"
    /\ UNCHANGED <<file, raw, words_store, url, session_target,
                   session_collected, total_collected, terminal, saves,
                   fetch_failed, ret, arrival, nops, last, saved, fw, xl>>

\* The interrupt handled with no finally clause behind it.
Interrupt_NoFinally ==
    /\ pc \in InLoop
    /\ terminal' = "INTERRUPTED"
    /\ pc' = "returned"
    /\ threw' = "none"
    /\ UNCHANGED <<state, file, raw, words_store, url, session_target,
                   session_collected, total_collected, marks, saves,
                   fetch_failed, ret, arrival, nops, last, saved, fw, xl>>

\* except KeyboardInterrupt: the signal arrives while main is anywhere in the
\* while loop and unwinds to the handler; nothing else is changed.
Interrupt ==
    /\ pc \in InLoop
    /\ terminal' = "INTERRUPTED"
    /\ pc' = "finally"
    /\ threw' = "none"
    /\ UNCHANGED <<state, file, raw, words_store, url, session_target,
                   session_collected, total_collected, marks, saves,
                   fetch_failed, ret, arrival, nops, last, saved, fw, xl>>

\* finally: crawler.save_progress(); main returns
Finally ==
    /\ pc = "finally"
    /\ state' = save_progress_state(state)
    /\ \E io \in SaveOutcomes : \E order \in Orderings(state.completed) :
        /\ file' = save_progress_file(state, file, io, order)
        /\ saved' = SavedAfter(saved, state, io)
    /\ saves' = saves + 1
    /\ pc' = "returned"
    /\ UNCHANGED <<raw, words_store, url, session_target,
                   session_collected, total_collected, terminal, marks,
                   fetch_failed, ret, arrival, nops, last, threw, fw, xl>>

Next ==
    \/ Start
    \/ QuotaCheck
    \/ Dequeue
    \/ Fetch
    \/ LogFetchFailure
    \/ MarkFetchFailure
    \/ Classify
    \/ MarkRejected
    \/ RemoveRaw
    \/ Parse
    \/ SaveProcessed
    \/ AddUrls
    \/ MarkAccepted
    \/ Count
    \/ ExceptLog
    \/ ExceptMark
    \/ Interrupt
    \/ Finally

Spec == Init /\ [][Next]_vars

\* main() is one sequential process that is never suspended: whenever it has
\* a next statement it executes one.
SpecFair == Spec /\ WF_vars(Next)

\* --------------------------------- crawler.py: the Crawler under any caller
\* A Crawler is constructed on progress.json by a process that then calls
\* its methods in any order with any arguments, may exit, and may be
\* followed by a process that constructs a Crawler on the same file.

\* arrival after the URLs of urls were offered to the queue q: the ones that
\* are in q and have no arrival yet arrive, in the order of urls.
RECURSIVE ArrivalAfterAdd(_, _, _)
ArrivalAfterAdd(arr, urls, q) ==
    IF urls = <<>> THEN arr
    ELSE ArrivalAfterAdd(
            IF InSeq(q, Head(urls)) /\ ~InSeq(arr, Head(urls))
            THEN Append(arr, Head(urls)) ELSE arr,
            Tail(urls), q)

\* arrival after u was taken off the queue: its first occurrence is removed.
RECURSIVE ArrivalAfterTake(_, _)
ArrivalAfterTake(arr, u) ==
    IF arr = <<>> THEN <<>>
    ELSE IF Head(arr) = u THEN Tail(arr)
    ELSE <<Head(arr)>> \o ArrivalAfterTake(Tail(arr), u)

InitCrawler ==
    /\ state = CrawlState
    /\ file \in InitFiles
    /\ raw = {}
    /\ words_store = {}
    /\ pc = "boot"
    /\ url = None
    /\ session_target = 0
    /\ session_collected = 0
    /\ total_collected = 0
    /\ terminal = "RUNNING"
    /\ marks = 0
    /\ saves = 0
    /\ fetch_failed = {}
    /\ ret = None
    /\ arrival = <<>>
    /\ nops = 0
    /\ last = NoCall
    /\ saved = NoSave
    /\ threw = "none"
    /\ fw = NoFrame
    /\ xl = NoFrame

\* What no Crawler call changes: the artifact stores, main()'s variables and
\* the frames of the fetcher and of the parser.
MainUnchanged ==
    UNCHANGED <<raw, words_store, url, session_target, session_collected,
                total_collected, terminal, marks, saves, fetch_failed,
                threw, fw, xl>>

\* Crawler(): a new process constructs a Crawler on the file.
Construct ==
    /\ pc \in {"boot", "exited"}
    /\ state' = Crawler(file)
    /\ arrival' = state'.queued
    /\ ret' = None
    /\ last' = [op |-> "Crawler", url |-> None]
    /\ pc' = "api"
    /\ UNCHANGED <<file, nops, saved>>
    /\ MainUnchanged

\* crawler._add_url(u)
CallAddUrl ==
    /\ pc = "api" /\ nops < MaxOps
    /\ \E u \in URLs :
        /\ state' = _add_url(state, u)
        /\ arrival' = ArrivalAfterAdd(arrival, <<u>>, state'.queued)
        /\ last' = [op |-> "_add_url", url |-> u]
    /\ nops' = nops + 1
    /\ UNCHANGED <<file, pc, ret, saved>>
    /\ MainUnchanged

\* crawler.add_urls(urls)
CallAddUrls ==
    /\ pc = "api" /\ nops < MaxOps
    /\ \E urls \in LinkLists :
        /\ state' = add_urls(state, urls)
        /\ arrival' = ArrivalAfterAdd(arrival, urls, state'.queued)
    /\ last' = [op |-> "add_urls", url |-> None]
    /\ nops' = nops + 1
    /\ UNCHANGED <<file, pc, ret, saved>>
    /\ MainUnchanged

\* crawler.get_next_url()
CallGetNextUrl ==
    /\ pc = "api" /\ nops < MaxOps
    /\ LET r == get_next_url(state)
       IN  /\ state' = r.state
           /\ ret' = r.ret
           /\ arrival' = ArrivalAfterTake(arrival, r.ret)
    /\ last' = [op |-> "get_next_url", url |-> None]
    /\ nops' = nops + 1
    /\ UNCHANGED <<file, pc, saved>>
    /\ MainUnchanged

\* crawler.mark_completed(u)
CallMarkCompleted ==
    /\ pc = "api" /\ nops < MaxOps
    /\ \E u \in URLs :
        /\ state' = mark_completed(state, u)
        /\ last' = [op |-> "mark_completed", url |-> u]
    /\ nops' = nops + 1
    /\ UNCHANGED <<file, pc, ret, arrival, saved>>
    /\ MainUnchanged

\* crawler.log_failure(u, reason)
CallLogFailure ==
    /\ pc = "api" /\ nops < MaxOps
    /\ \E u \in URLs :
        /\ state' = log_failure(state, u, "Download failed")
        /\ last' = [op |-> "log_failure", url |-> u]
    /\ nops' = nops + 1
    /\ UNCHANGED <<file, pc, ret, arrival, saved>>
    /\ MainUnchanged

\* crawler.save_progress()
CallSaveProgress ==
    /\ pc = "api" /\ nops < MaxOps
    /\ state' = save_progress_state(state)
    /\ \E io \in SaveOutcomes : \E order \in Orderings(state.completed) :
        /\ file' = save_progress_file(state, file, io, order)
        /\ saved' = SavedAfter(saved, state, io)
    /\ last' = [op |-> "save_progress", url |-> None]
    /\ nops' = nops + 1
    /\ UNCHANGED <<pc, ret, arrival>>
    /\ MainUnchanged

\* The process exits; its Crawler is gone and only the file stays.
Exit ==
    /\ pc = "api"
    /\ state' = CrawlState
    /\ arrival' = <<>>
    /\ ret' = None
    /\ last' = NoCall
    /\ pc' = "exited"
    /\ UNCHANGED <<file, nops, saved>>
    /\ MainUnchanged

NextCrawler ==
    \/ Construct
    \/ CallAddUrl
    \/ CallAddUrls
    \/ CallGetNextUrl
    \/ CallMarkCompleted
    \/ CallLogFailure
    \/ CallSaveProgress
    \/ Exit

SpecCrawler == InitCrawler /\ [][NextCrawler]_vars

\* ------------------------------------ fetcher.py: fetch_with_retry(url, max_retries)
\* One call of fetch_with_retry.  The frame fw holds its locals (max_retries,
\* attempt, backoff, the exception e being handled) and the history of the
\* call: the requests issued, the lengths of the sleeps in order (waits),
\* for each sleep whether its length came from a Retry-After header
\* (directed), and how the call ended (result).  The URL plays no part in the
\* retry policy (a leading / is completed with base_url) and is left out.

\* settings.initial_backoff and settings.max_backoff
initial_backoff == 2
max_backoff == 32

Min(a, b) == IF a <= b THEN a ELSE b

\* The characters of the Retry-After header values tried.
Digits == {"0", "1", "2", "3", "4", "5", "6", "7", "8", "9"}

DigitValue(c) ==
    CASE c = "0" -> 0 [] c = "1" -> 1 [] c = "2" -> 2 [] c = "3" -> 3
      [] c = "4" -> 4 [] c = "5" -> 5 [] c = "6" -> 6 [] c = "7" -> 7
      [] c = "8" -> 8 [] c = "9" -> 9

RECURSIVE Decimal(_)
Decimal(s) ==
    IF s = <<>> THEN 0
    ELSE 10 * Decimal(SubSeq(s, 1, Len(s) - 1)) + DigitValue(s[Len(s)])

IsDecimal(s) == Len(s) > 0 /\ \A i \in 1..Len(s) : s[i] \in Digits

\* Python's int(text) on a header value: an optional sign and decimal
\* digits give the number, anything else raises ValueError.
int(s) ==
    IF IsDecimal(s) THEN [ok |-> TRUE, value |-> Decimal(s)]
    ELSE IF Len(s) > 1 /\ s[1] = "-" /\ IsDecimal(Tail(s))
         THEN [ok |-> TRUE, value |-> 0 - Decimal(Tail(s))]
    ELSE IF Len(s) > 1 /\ s[1] = "+" /\ IsDecimal(Tail(s))
         THEN [ok |-> TRUE, value |-> Decimal(Tail(s))]
    ELSE [ok |-> FALSE, value |-> 0]

\* e.response.headers.get("Retry-After"): the header text as a sequence of
\* characters; the empty sequence stands for a missing header (None) and for
\* an empty one, which are both false in  if retry_after.
NoHeader == <<>>
RetryAfterHeaders ==
    {NoHeader, <<"W", "e", "d">>, <<"-", "1">>, <<"1", "0">>, <<"4", "0">>}

\* What session.get and raise_for_status raise.
ConnectionError == [exc |-> "ConnectionError"]
Timeout == [exc |-> "Timeout"]
HTTPError(status_code, retry_after) ==
    [exc |-> "HTTPError", status_code |-> status_code,
     retry_after |-> retry_after]
NoError == [exc |-> "none"]

Failures ==
    {ConnectionError, Timeout}
    \cup {HTTPError(s, NoHeader) : s \in {404, 500}}
    \cup {HTTPError(s, h) : s \in {429, 503}, h \in RetryAfterHeaders}

\* Every error retried.
should_retry_Always(e) == TRUE

\* should_retry: False for an HTTPError whose status is neither 429 nor 503.
should_retry(e) ==
    ~(e.exc = "HTTPError" /\ e.status_code \notin {429, 503})

\* The int(retry_after) branch is taken: a 429 or 503 whose Retry-After
\* header is non-empty and is the text of an integer.
retry_after_used(e) ==
    /\ e.exc = "HTTPError"
    /\ e.status_code \in {429, 503}
    /\ e.retry_after # NoHeader
    /\ int(e.retry_after).ok

\* The backoff used as it is, without the cap.
standard_wait_Uncapped(backoff) == backoff

\* wait_time = min(backoff, settings.max_backoff)
standard_wait(backoff) == Min(backoff, max_backoff)

\* wait_time at time.sleep(wait_time)
wait_time(backoff, e) ==
    IF retry_after_used(e) THEN int(e.retry_after).value
    ELSE standard_wait(backoff)

\* The backoff doubled after every sleep.
increment_backoff_Always(e) == TRUE

\* increment_backoff at  if increment_backoff: backoff *= 2
increment_backoff(e) == ~retry_after_used(e)

\* main() and the Crawler as they are while a function of the fetcher or of
\* the parser is looked at on its own: not started.
MainIdle ==
    /\ state = CrawlState
    /\ file = NoFile
    /\ raw = {}
    /\ words_store = {}
    /\ pc = "idle"
    /\ url = None
    /\ session_target = 0
    /\ session_collected = 0
    /\ total_collected = 0
    /\ terminal = "RUNNING"
    /\ marks = 0
    /\ saves = 0
    /\ fetch_failed = {}
    /\ ret = None
    /\ arrival = <<>>
    /\ nops = 0
    /\ last = NoCall
    /\ saved = NoSave
    /\ threw = "none"

MainVars ==
    <<state, file, raw, words_store, pc, url, session_target,
      session_collected, total_collected, terminal, marks, saves,
      fetch_failed, ret, arrival, nops, last, saved, threw>>

\* The frame on entry: backoff = settings.initial_backoff
fetch_with_retry(max_retries) ==
    [pc |-> "for", max_retries |-> max_retries, attempt |-> 0,
     backoff |-> initial_backoff, e |-> NoError, waits |-> <<>>,
     directed |-> <<>>, requests |-> 0, result |-> "none"]

\* A caller calls fetch_with_retry with some max_retries (the default is
\* settings.max_retries, 5 unless the environment sets another).
InitFetch ==
    /\ MainIdle
    /\ \E max_retries \in 0..MaxRetries : fw = fetch_with_retry(max_retries)
    /\ xl = NoFrame

\* for attempt in range(max_retries): the next attempt starts, or the range
\* is used up and  raise Exception("Unreachable code")  is reached.
ForAttempt ==
    /\ fw.pc = "for"
    /\ IF fw.attempt < fw.max_retries
       THEN fw' = [fw EXCEPT !.pc = "get"]
       ELSE fw' = [fw EXCEPT !.pc = "raised", !.result = "Exception"]
    /\ UNCHANGED <<MainVars, xl>>

\* response = session.get(...); response.raise_for_status(); return response
Get ==
    /\ fw.pc = "get"
    /\ \/ fw' = [fw EXCEPT !.pc = "returned", !.result = "response",
                           !.requests = @ + 1]
       \/ \E e \in Failures :
            fw' = [fw EXCEPT !.pc = "except", !.e = e, !.requests = @ + 1]
    /\ UNCHANGED <<MainVars, xl>>

\* except (ConnectionError, Timeout, HTTPError) as e: the last attempt and an
\* error that is not retried re-raise e; otherwise the handler sleeps for
\* wait_time (time.sleep raises ValueError for a negative length), doubles
\* backoff if increment_backoff, and the loop goes on.
Except ==
    /\ fw.pc = "except"
    /\ IF fw.attempt = fw.max_retries - 1 \/ ~should_retry(fw.e)
       THEN fw' = [fw EXCEPT !.pc = "raised", !.result = fw.e.exc]
       ELSE IF wait_time(fw.backoff, fw.e) < 0
       THEN fw' = [fw EXCEPT !.pc = "raised", !.result = "ValueError"]
       ELSE fw' = [fw EXCEPT
                !.pc = "for",
                !.attempt = @ + 1,
                !.waits = Append(@, wait_time(fw.backoff, fw.e)),
                !.directed = Append(@, retry_after_used(fw.e)),
                !.backoff = IF increment_backoff(fw.e) THEN @ * 2 ELSE @]
    /\ UNCHANGED <<MainVars, xl>>

NextFetch ==
    \/ ForAttempt
    \/ Get
    \/ Except

SpecFetch == InitFetch /\ [][NextFetch]_vars

\* ----------------------------------------- parser.py: extract_links(content)
\* One call of extract_links.  An href is the sequence of its pieces, a piece
\* being the text "/wiki/", "/w/", a name, or one of the characters # and :
\* (no other piece holds a # or a : or begins a "/wiki/").  The frame xl holds
\* the hrefs of the <a href> elements of the paragraphs of content in
\* document order (hrefs), the number of them the loops have gone through
\* (i), links, settings.deduplicate_links and the list returned (result).

\* The hrefs tried: two articles, an article with a fragment, a category
\* page, a bare fragment, a path outside /wiki/, and an article with a colon
\* in its fragment only.
Hrefs ==
    {<<"/wiki/", "Foo">>,
     <<"/wiki/", "Bar">>,
     <<"/wiki/", "Foo", "#", "cite_note-1">>,
     <<"/wiki/", "Category", ":", "Physics">>,
     <<"#", "top">>,
     <<"/w/", "index.php">>,
     <<"/wiki/", "Bar", "#", "a", ":", "b">>}

\* x in href, for a single character x
HasChar(href, x) == \E k \in 1..Len(href) : href[k] = x

\* href.split('#')[0]
RECURSIVE split_first(_)
split_first(href) ==
    IF href = <<>> \/ Head(href) = "#" THEN <<>>
    ELSE <<Head(href)>> \o split_first(Tail(href))

\* if '#' in href: href = href.split('#')[0]
strip_fragment(href) ==
    IF HasChar(href, "#") THEN split_first(href) ELSE href

\* href.startswith('/wiki/')
startswith_wiki(href) == href # <<>> /\ Head(href) = "/wiki/"

\* any(x in href for x in ['File:', 'Category:', 'Help:', 'Special:', 'Wikipedia:'])
names_special(href) ==
    \E k \in 1..(Len(href) - 1) :
        /\ href[k] \in {"File", "Category", "Help", "Special", "Wikipedia"}
        /\ href[k + 1] = ":"

\* The test of an href without the test for a colon.
is_article_link_NoColonTest(href) ==
    /\ href # <<>>
    /\ startswith_wiki(href)

\* The tests an href (its fragment stripped) passes to be appended to links:
\* not empty, starts with /wiki/, holds no colon, names no special page.
is_article_link(href) ==
    /\ href # <<>>
    /\ startswith_wiki(href)
    /\ ~HasChar(href, ":")
    /\ ~names_special(href)

\* Deduplicate while preserving order: seen and unique_links
RECURSIVE unique_links(_, _)
unique_links(links, seen) ==
    IF links = <<>> THEN <<>>
    ELSE IF Head(links) \in seen THEN unique_links(Tail(links), seen)
    ELSE <<Head(links)>>
            \o unique_links(Tail(links), seen \cup {Head(links)})

\* The frame on entry: links = []
extract_links(hrefs, deduplicate_links) ==
    [pc |-> "for", hrefs |-> hrefs, i |-> 0, links |-> <<>>,
     deduplicate_links |-> deduplicate_links, result |-> <<>>]

\* parse_article calls extract_links on a content whose paragraphs hold any
\* anchors; settings.deduplicate_links is True unless the environment sets it.
InitLinks ==
    /\ MainIdle
    /\ fw = NoFrame
    /\ \E hrefs \in SeqsUpTo(Hrefs, MaxHrefs) : \E d \in BOOLEAN :
            xl = extract_links(hrefs, d)

\* The body of the loops for one anchor.
Anchor ==
    /\ xl.pc = "for"
    /\ xl.i < Len(xl.hrefs)
    /\ LET href == strip_fragment(xl.hrefs[xl.i + 1])
       IN  xl' = [xl EXCEPT
                !.i = @ + 1,
                !.links = IF is_article_link(href) THEN Append(@, href)
                          ELSE @]
    /\ UNCHANGED <<MainVars, fw>>

\* The loops are over: return unique_links if settings.deduplicate_links,
\* else links.
ReturnLinks ==
    /\ xl.pc = "for"
    /\ xl.i = Len(xl.hrefs)
    /\ xl' = [xl EXCEPT
            !.pc = "returned",
            !.result = IF xl.deduplicate_links
                       THEN unique_links(xl.links, {})
                       ELSE xl.links]
    /\ UNCHANGED <<MainVars, fw>>

NextLinks ==
    \/ Anchor
    \/ ReturnLinks

SpecLinks == InitLinks /\ [][NextLinks]_vars

\* ================================================================ claims

\* The frontier holds no URL twice.
NoDuplicates(q) == \A i, j \in 1..Len(q) : i # j => q[i] # q[j]

\* The URLs that are completed with no processed files and no failure entry:
\* the pages the classifier rejected.
Rejected ==
    {u \in state.completed :
        u \notin words_store /\ FailureCount(state.failed, u) = 0}

\* C1: no URL is in both the visited set (state.completed) and the frontier
\* (state.queued), in every state of the crawl.  The code breaks this: an
\* accepted page whose links contain its own URL is enqueued again by add_urls
\* and then marked completed.
C1_VisitedFrontierDisjoint ==
    state.completed \cap Range(state.queued) = {}

\* C2: from an empty, seeded or loaded Crawler, after any sequence of _add_url,
\* add_urls, get_next_url and mark_completed calls, no URL occurs more than
\* once in the frontier queue.
C2_FrontierHasNoDuplicates == NoDuplicates(state.queued)

\* C2 witness: _add_url was called, on the seeded Crawler, for a URL that was
\* queued already.
C2_Witness ==
    /\ pc = "api" /\ nops = 1
    /\ last = [op |-> "_add_url", url |-> 1]
    /\ state.queued = seed_urls

\* C3: session_collected never exceeds the session target; the loop that stops
\* at the quota check stops with session_collected equal to the target, and
\* the loop that stops on an empty frontier has collected fewer; and
\* session_collected changes only by the accept path's increment of one, for a
\* URL whose fetch did not fail and whose processed files were written.
C3_QuotaTermination ==
    /\ [](/\ session_collected <= session_target
          /\ terminal = "DONE_QUOTA" => session_collected = session_target
          /\ terminal = "DONE_EMPTY" => session_collected < session_target)
    /\ [][session_collected' # session_collected =>
            /\ pc = "count"
            /\ session_collected' = session_collected + 1
            /\ url \in words_store
            /\ url \notin fetch_failed]_vars

\* C3 witness: the loop stopped at the quota check with two articles collected
\* for a target of two, after a failed fetch and a rejected page.
C3_Witness ==
    /\ terminal = "DONE_QUOTA"
    /\ session_target = 2 /\ session_collected = 2
    /\ fetch_failed # {}
    /\ Rejected # {}

\* C4: after a failed fetch the loop goes back to its head with the frontier
\* as it was and keeps running; and whenever the loop is at its head, and when
\* it has stopped on the quota or on the empty frontier, every URL whose fetch
\* failed is in the visited set and has exactly one entry in the failure log.
C4_GracefulPartialFailure ==
    /\ [](pc = "quota" \/ terminal \in {"DONE_QUOTA", "DONE_EMPTY"} =>
            \A u \in fetch_failed :
                /\ u \in state.completed
                /\ FailureCount(state.failed, u) = 1)
    /\ [][pc = "mark_fail" /\ pc' # "finally" =>
            /\ pc' = "quota"
            /\ terminal' = "RUNNING"
            /\ state'.queued = state.queued]_vars

\* C4 witness: the run has ended on the empty frontier; the fetch of seed 1
\* failed and seed 2, dequeued after it, was processed and accepted.
C4_Witness ==
    /\ pc = "returned" /\ terminal = "DONE_EMPTY"
    /\ 1 \in fetch_failed
    /\ 2 \in words_store

\* C5: when the loop is back at its head after an iteration, the URL that
\* get_next_url returned is in the visited set and mark_completed was called
\* for it exactly once in that iteration, whatever the outcome was; no
\* iteration calls it twice.
C5_DequeuedUrlMarkedOnce ==
    /\ marks <= 1
    /\ pc = "quota" /\ url # None => marks = 1 /\ url \in state.completed

\* C5 witness: the loop is at its head after an iteration that ended in the
\* exception handler, in a run that also saw a failed fetch, a rejected page
\* and an accepted one.
C5_Witness ==
    /\ pc = "quota"
    /\ FailureCount(state.failed, url) = 1 /\ url \notin fetch_failed
    /\ fetch_failed # {}
    /\ Rejected # {}
    /\ words_store # {}

\* C6: when main has returned, however the loop stopped, save_progress was
\* executed exactly once, and it is not executed while the loop runs.
C6_SavedExactlyOnce ==
    /\ pc = "returned" => saves = 1 /\ terminal # "RUNNING"
    /\ pc # "returned" => saves = 0

\* C6 witness: main has returned after a KeyboardInterrupt that arrived between
\* get_next_url and mark_completed.
C6_Witness ==
    /\ pc = "returned" /\ terminal = "INTERRUPTED"
    /\ url # None /\ url \notin state.completed
    /\ saves = 1

\* C7: the frontier is always in the order in which its URLs were appended;
\* get_next_url removes and returns the URL appended earliest, and returns
\* None exactly when the frontier is empty.
C7_StrictFifo ==
    /\ [](pc = "api" => arrival = state.queued)
    /\ [][last'.op = "get_next_url" /\ nops' = nops + 1 =>
            /\ (ret' = None) <=> (state.queued = <<>>)
            /\ state.queued # <<>> =>
                 /\ ret' = Head(arrival)
                 /\ state'.queued = Tail(state.queued)
            /\ state.queued = <<>> => state'.queued = <<>>]_vars

\* C7 witness: the seeds 1, 2, 3, 4 were enqueued in that order and three
\* calls of get_next_url, the third returning 3, have left 4.
C7_Witness ==
    /\ pc = "api" /\ nops = 3
    /\ last.op = "get_next_url" /\ ret = 3
    /\ state.queued = <<4>> /\ state.completed = {}
    /\ file = NoFile

\* C8: _add_url(u) for a URL that is completed or queued changes nothing, and
\* in every state a second _add_url(u) changes nothing after the first.
C8_IdempotentEnqueue ==
    /\ [](pc = "api" =>
            \A u \in URLs :
                _add_url(_add_url(state, u), u) = _add_url(state, u))
    /\ [][last'.op = "_add_url" /\ nops' = nops + 1 =>
            (last'.url \in state.completed \/ InSeq(state.queued, last'.url)
                => state' = state)]_vars

\* C8 witness: _add_url was called for a URL that is completed and not queued.
C8_Witness ==
    /\ pc = "api"
    /\ last.op = "_add_url"
    /\ last.url \in state.completed
    /\ ~InSeq(state.queued, last.url)

\* The dump on the file is the one saved records, and a Crawler has just been
\* constructed on it.
LoadedFromSave ==
    /\ pc = "api"
    /\ last.op = "Crawler"
    /\ saved.kind = "state"

\* The statistics on the file are the counts of the state that was saved.
SavedStatisticsRecomputed ==
    saved.kind = "state" =>
        /\ file.kind = "json"
        /\ file.statistics.total_completed = Cardinality(saved.state.completed)
        /\ file.statistics.total_queued = Len(saved.state.queued)
        /\ file.statistics.total_failed = Len(saved.state.failed)

\* C9 as claimed: for any CrawlState with a non-empty visited set, frontier or
\* failure log, save_progress followed by the construction of a new Crawler on
\* the file yields the same visited set, frontier and failure records, and the
\* saved statistics are the counts at save time.
C9_RoundTripOfAnyState ==
    /\ SavedStatisticsRecomputed
    /\ LoadedFromSave
         /\ (saved.state.completed # {} \/ saved.state.queued # <<>>
                \/ saved.state.failed # <<>>)
       => /\ state.completed = saved.state.completed
          /\ state.queued = saved.state.queued
          /\ state.failed = saved.state.failed

\* C9 amended: the visited set and the failure records always come back as
\* saved; the frontier comes back as saved when the saved visited set or
\* frontier is non-empty, and as the four seeds when both are empty; the saved
\* statistics are the counts at save time.
C9_RoundTrip ==
    /\ SavedStatisticsRecomputed
    /\ LoadedFromSave =>
          /\ state.completed = saved.state.completed
          /\ state.failed = saved.state.failed
          /\ state.queued =
                IF saved.state.completed = {} /\ saved.state.queued = <<>>
                THEN seed_urls
                ELSE saved.state.queued

\* C9 witness: a Crawler was constructed on the dump of a state with a
\* non-empty visited set, frontier and failure log, whose statistics were
\* stale when it was saved.
C9_Witness ==
    /\ LoadedFromSave
    /\ saved.state.completed # {}
    /\ saved.state.queued # <<>>
    /\ saved.state.failed # <<>>

\* C10: a Crawler constructed on a missing, empty or corrupt file is the empty
\* state seeded with the four seed URLs in order; a loaded state with no
\* visited and no frontier URL is seeded in the same way (its failure log
\* kept); any other loaded state is taken as it is on the file.
C10_LoadNeverAbortsAndSeedsWhenEmpty ==
    pc = "api" /\ last.op = "Crawler" =>
        /\ file.kind # "json" =>
              /\ state.completed = {}
              /\ state.failed = <<>>
              /\ state.queued = <<1, 2, 3, 4>>
        /\ file.kind = "json" /\ file.completed = <<>> /\ file.queued = <<>> =>
              /\ state.completed = {}
              /\ state.failed = file.failed
              /\ state.queued = <<1, 2, 3, 4>>
        /\ file.kind = "json" /\ (file.completed # <<>> \/ file.queued # <<>>) =>
              /\ state.completed = Range(file.completed)
              /\ state.failed = file.failed
              /\ state.queued = file.queued

\* C10 witness: a Crawler was constructed on a corrupt file that a failed
\* write of an earlier process left.
C10_Witness ==
    /\ pc = "api" /\ last.op = "Crawler"
    /\ file = GarbageFile
    /\ nops > 0
    /\ state.queued = seed_urls

\* ------------------------------------------------ fetch_with_retry claims

\* C11: as long as no sleep of the call took its length from a Retry-After
\* header, the k-th wait is min(initial_backoff * 2^(k-1), max_backoff); with
\* the configured 2 and 32 the first three waits are 2, 4, 8 and no such wait
\* exceeds 32.
C11_BackoffGrowth ==
    \A k \in 1..Len(fw.waits) :
        (\A i \in 1..k : ~fw.directed[i]) =>
            /\ fw.waits[k] = Min(initial_backoff * 2^(k - 1), max_backoff)
            /\ k <= 3 => fw.waits[k] = <<2, 4, 8>>[k]
            /\ fw.waits[k] <= 32

\* C11 witness: six transient failures in a row without a directive, the
\* sixth wait being the capped one (2, 4, 8, 16, 32, 32).
C11_Witness ==
    /\ Len(fw.waits) >= 6
    /\ \A i \in 1..6 : ~fw.directed[i]
    /\ fw.waits[5] = 32
    /\ fw.waits[6] = 32
    /\ fw.backoff > max_backoff

\* The sleeps before the k-th whose length was the standard one: each of them
\* was followed by a doubling.
StandardBefore(directed, k) ==
    Cardinality({i \in 1..(k - 1) : ~directed[i]})

\* C12: a 429 or 503 with a Retry-After of N seconds (N >= 0), on an attempt
\* that is not the last, is followed by a sleep of exactly N, whatever
\* max_backoff and the backoff are, and leaves the backoff as it was; so
\* every standard wait is min(initial_backoff * 2^j, max_backoff) with j the
\* number of standard waits before it, the directed ones not counting.
C12_RetryAfterVerbatim ==
    /\ [](\A k \in 1..Len(fw.waits) :
            ~fw.directed[k] =>
                fw.waits[k] =
                    Min(initial_backoff * 2^StandardBefore(fw.directed, k),
                        max_backoff))
    /\ [][(/\ fw.pc = "except"
           /\ fw.e.exc = "HTTPError"
           /\ fw.e.status_code \in {429, 503}
           /\ int(fw.e.retry_after).ok
           /\ int(fw.e.retry_after).value >= 0
           /\ fw.attempt < fw.max_retries - 1)
          => /\ fw'.waits = Append(fw.waits, int(fw.e.retry_after).value)
             /\ fw.e.retry_after = <<"4", "0">> => fw'.waits[Len(fw'.waits)] = 40
             /\ fw.e.retry_after = <<"1", "0">> => fw'.waits[Len(fw'.waits)] = 10
             /\ fw'.directed = Append(fw.directed, TRUE)
             /\ fw'.backoff = fw.backoff
             /\ fw'.pc = "for"]_vars

\* C12 witness: a standard wait of 2, then a 429 or 503 with Retry-After: 40
\* and a sleep of 40 (above max_backoff), then the standard wait of 4.
C12_Witness ==
    /\ Len(fw.waits) = 3
    /\ fw.waits = <<2, 40, 4>>
    /\ fw.directed = <<FALSE, TRUE, FALSE>>
    /\ fw.backoff = 8

\* A 4xx status other than 429.
Permanent(e) ==
    /\ e.exc = "HTTPError"
    /\ e.status_code >= 400
    /\ e.status_code <= 499
    /\ e.status_code # 429

\* C13: a 4xx other than 429 ends the call at once, on every attempt index
\* and for every max_retries >= 1: the HTTPError is raised to the caller with
\* no sleep and no further request, the call having issued one request per
\* attempt started and none after the one that got the status.
C13_PermanentNotRetried ==
    /\ [][(fw.pc = "except" /\ Permanent(fw.e) /\ fw.max_retries >= 1)
          => /\ fw'.pc = "raised"
             /\ fw'.result = "HTTPError"
             /\ fw'.e = fw.e
             /\ fw'.waits = fw.waits
             /\ fw'.requests = fw.requests
             /\ fw'.requests = fw.attempt + 1]_vars
    /\ [][fw.pc = "raised" => fw' = fw]_vars

\* C13 witness: a 404 on the third attempt of five, after two transient
\* failures, raised with three requests issued and the two earlier sleeps.
C13_Witness ==
    /\ fw.pc = "raised"
    /\ fw.e = HTTPError(404, NoHeader)
    /\ fw.result = "HTTPError"
    /\ fw.max_retries = 5
    /\ fw.attempt = 2
    /\ fw.requests = 3
    /\ Len(fw.waits) = 2

\* A connection error, a timeout, a 429 or a 503.
Transient(e) ==
    \/ e.exc \in {"ConnectionError", "Timeout"}
    \/ e.exc = "HTTPError" /\ e.status_code \in {429, 503}

\* C14: a call never issues more than max_retries requests, and a call
\* (max_retries >= 1) that ended on a transient failure, all its attempts
\* having failed transiently, issued exactly max_retries requests, slept
\* max_retries - 1 times, once between two attempts, and raised that failure
\* to its caller; a response is returned only by a request that succeeded,
\* every request before it having failed and been slept after.
C14_RetryExhaustion ==
    /\ fw.requests <= fw.max_retries
    /\ (fw.pc = "raised" /\ fw.max_retries >= 1 /\ Transient(fw.e)) =>
            /\ fw.requests = fw.max_retries
            /\ Len(fw.waits) = fw.max_retries - 1
            /\ fw.result = fw.e.exc
    /\ fw.result = "response" =>
            /\ fw.pc = "returned"
            /\ Len(fw.waits) = fw.requests - 1

\* ------------------------------------------------------- main() claims

\* The rank of a position of main() within one iteration: every statement
\* of the loop body moves to a position of lower rank, or ends the iteration.
Rank(p) ==
    CASE p = "quota" -> 9
      [] p = "dequeue" -> 8
      [] p = "fetch" -> 7
      [] p \in {"classify", "log_fail"} -> 6
      [] p \in {"parse", "mark_rej", "mark_fail"} -> 5
      [] p \in {"save_processed", "remove_raw"} -> 4
      [] p \in {"add_urls", "exc_log"} -> 3
      [] p \in {"mark_ok", "exc_mark"} -> 2
      [] p = "count" -> 1

\* The articles the session has still to collect, the one being accepted (its
\* links are added, its count is pending) taken off already.
StillToCollect ==
    session_target - session_collected
        - (IF pc \in {"mark_ok", "count"} THEN 1 ELSE 0)

\* The URLs waiting: the frontier and the URL of the iteration under way.
Waiting ==
    Len(state.queued)
        + (IF pc \in InLoop \ {"quota", "dequeue"} THEN 1 ELSE 0)

\* A natural number that every step of main() makes smaller: collecting an
\* article outweighs any growth of the frontier, which holds no URL twice; an
\* iteration that collects nothing ends with one URL less waiting.
Variant ==
    CASE pc = "returned" -> 0
      [] pc = "finally" -> 1
      [] pc = "start" ->
            2 + 10 * ((MaxTarget + 1) * (Cardinality(URLs) + 2))
      [] pc \in InLoop ->
            2 + 10 * (StillToCollect * (Cardinality(URLs) + 2) + Waiting)
                + Rank(pc)

\* C15: over the finite set of URLs, whatever the pages link to (themselves
\* and each other included) and however fetches, classifications and writes
\* turn out, the loop stops, on an empty frontier, on the quota or on an
\* interrupt, and main returns: every statement lowers a natural number,
\* and until main has returned it is at a statement that can be executed
\* (the statements are enabled by the position alone, but for the two whose
\* outcomes are restricted, which are checked to have one).  A quota check
\* that finds session_collected at the target or above stops the loop.
C15_LoopStops ==
    /\ [](/\ Variant \in Nat
          /\ pc \in {"start", "finally", "returned"} \cup InLoop
          /\ pc = "classify" => ENABLED Classify
          /\ pc = "add_urls" => ENABLED AddUrls)
    /\ [][Variant' < Variant]_vars
    /\ [][(pc = "quota" /\ session_collected >= session_target)
          => terminal' \in {"DONE_QUOTA", "INTERRUPTED"}]_vars

\* C15 witness: the loop stopped on the empty frontier, with no interrupt,
\* after a page that links to itself was accepted, enqueued again by its own
\* link and dequeued a second time (its second write failed).
C15_Witness ==
    /\ terminal = "DONE_EMPTY"
    /\ pc = "returned"
    /\ session_collected = 1
    /\ \E u \in words_store : FailureCount(state.failed, u) = 1

\* C16: an interrupt is honoured at a loop-iteration boundary only, between
\* the end of one iteration and the dequeue of the next URL: it never ends
\* the loop while a URL is in flight, so a fetch under way and the statements
\* after it run to their end first.
C16_CooperativeCancellation ==
    [][(terminal # "INTERRUPTED" /\ terminal' = "INTERRUPTED")
       => pc \in {"quota", "dequeue"}]_vars

\* C17: in an iteration in which the classifier or parse_article raised, the
\* URL is not counted as accepted, the iteration ends with the URL marked
\* visited and with a failure-log entry for it as the newest entry, and the
\* run goes on to the next quota check (unless it is interrupted).
C17_ExtractorFailureLogged ==
    [][(threw # "none" /\ pc' # pc) =>
          /\ session_collected' = session_collected
          /\ total_collected' = total_collected
          /\ pc' \in InLoop \/ terminal' = "INTERRUPTED"
          /\ pc' = "quota" =>
                /\ url \in state'.completed
                /\ state'.failed # <<>>
                /\ state'.failed[Len(state'.failed)].url = url]_vars

\* ---------------------------------------------------- extract_links claim

\* The position of the first # of an href, or one past its end.
FragmentAt(href) ==
    IF \E k \in 1..Len(href) : href[k] = "#"
    THEN CHOOSE k \in 1..Len(href) :
            href[k] = "#" /\ \A m \in 1..(k - 1) : href[m] # "#"
    ELSE Len(href) + 1

\* An href without its #fragment.
Stripped(href) == SubSeq(href, 1, FragmentAt(href) - 1)

\* Starts with /wiki/ and names no namespace.
Qualifies(href) ==
    /\ Len(href) >= 1
    /\ href[1] = "/wiki/"
    /\ \A k \in 1..Len(href) : href[k] # ":"

\* The place of the first href of hrefs that is link once stripped.
FirstOccurrence(hrefs, link) ==
    CHOOSE k \in 1..Len(hrefs) :
        /\ Stripped(hrefs[k]) = link
        /\ \A m \in 1..(k - 1) : Stripped(hrefs[m]) # link

\* C18: with deduplicate_links on, the list returned holds exactly the hrefs
\* that, their #fragment stripped, start with /wiki/ and hold no colon, each
\* once, in the order of their first occurrence; the hrefs
\* /wiki/Foo#cite_note-1, /wiki/Category:Physics, /wiki/Bar, /wiki/Bar give
\* /wiki/Foo, /wiki/Bar.
C18_LinkFiltering ==
    (xl.pc = "returned" /\ xl.deduplicate_links) =>
        /\ Range(xl.result) =
              {Stripped(xl.hrefs[k]) : k \in
                  {m \in 1..Len(xl.hrefs) : Qualifies(Stripped(xl.hrefs[m]))}}
        /\ \A a, b \in 1..Len(xl.result) :
              a < b => FirstOccurrence(xl.hrefs, xl.result[a])
                          < FirstOccurrence(xl.hrefs, xl.result[b])
        /\ xl.hrefs = << <<"/wiki/", "Foo", "#", "cite_note-1">>,
                         <<"/wiki/", "Category", ":", "Physics">>,
                         <<"/wiki/", "Bar">>, <<"/wiki/", "Bar">> >>
              => xl.result = << <<"/wiki/", "Foo">>, <<"/wiki/", "Bar">> >>

\* C18 witness: the call on the four hrefs of the example has returned
\* /wiki/Foo, /wiki/Bar.
C18_Witness ==
    /\ xl.pc = "returned"
    /\ xl.deduplicate_links
    /\ xl.hrefs = << <<"/wiki/", "Foo", "#", "cite_note-1">>,
                     <<"/wiki/", "Category", ":", "Physics">>,
                     <<"/wiki/", "Bar">>, <<"/wiki/", "Bar">> >>
    /\ xl.result = << <<"/wiki/", "Foo">>, <<"/wiki/", "Bar">> >>

\* ------------------------------------------------- main() claims, continued

IsPrefix(s, t) == Len(s) <= Len(t) /\ SubSeq(t, 1, Len(s)) = s

\* The state st with its failure log emptied.
WithoutFailures(st) == [st EXCEPT !.failed = <<>>]

\* C20: every step of a run (a step of main(), a Crawler operation of any
\* caller; not the end of the process) leaves the visited set a subset of what
\* it is after the step and the failure log a prefix of what it is after it;
\* and where main() calls get_next_url, add_urls and mark_completed, what
\* they return and what they do to the frontier and the visited set is the
\* same whatever the failure log holds.
C20_VisitedGrowsFailuresAppended ==
    /\ [][pc' # "exited" =>
            /\ state.completed \subseteq state'.completed
            /\ IsPrefix(state.failed, state'.failed)]_vars
    /\ [](/\ pc = "dequeue" =>
                /\ get_next_url(WithoutFailures(state)).ret
                      = get_next_url(state).ret
                /\ get_next_url(WithoutFailures(state)).state.queued
                      = get_next_url(state).state.queued
          /\ pc = "add_urls" =>
                \A u \in URLs :
                    _add_url(WithoutFailures(state), u).queued
                        = _add_url(state, u).queued
          /\ pc \in {"mark_fail", "mark_rej", "mark_ok", "exc_mark"} =>
                mark_completed(WithoutFailures(state), url).completed
                    = mark_completed(state, url).completed)

\* C20 witness: a run that has logged two failures and visited three URLs
\* is about to call get_next_url on a non-empty frontier.
C20_Witness ==
    /\ Len(state.failed) = 2
    /\ Cardinality(state.completed) = 3
    /\ state.queued # <<>>
    /\ pc = "dequeue"

\* C21: get_next_url never hands main() a URL that is in the visited set
\* (every dequeued URL is marked visited in its iteration, so this is a URL
\* dequeued once already), no step puts a visited URL into the frontier, no
\* URL is fetched while visited, and between iterations session_collected is
\* the number of distinct URLs with processed files.
C21_ProcessedAtMostOnce ==
    /\ [][(pc = "dequeue" /\ pc' = "fetch") =>
            url' \notin state.completed]_vars
    /\ [][\A u \in state.completed :
            InSeq(state'.queued, u) => InSeq(state.queued, u)]_vars
    /\ [](pc = "fetch" => url \notin state.completed)
    /\ [](pc = "quota" => session_collected = Cardinality(words_store))

\* The URLs the run knew when it started: the frontier and the visited set of
\* the Crawler constructed on the checkpoint file f.
KnownAtStart(f) == Crawler(f).completed \cup Range(Crawler(f).queued)

\* C22: when the loop was ended by KeyboardInterrupt, the state that finally
\* hands to save_progress, and the checkpoint save_progress writes from it,
\* hold every URL that was in the frontier or in the visited set when the run
\* started, in the visited set or in the frontier.
C22_InterruptLosesNoUrl ==
    /\ []((pc = "finally" /\ terminal = "INTERRUPTED") =>
            KnownAtStart(file)
                \subseteq state.completed \cup Range(state.queued))
    /\ [][(pc = "finally" /\ terminal = "INTERRUPTED"
                /\ file'.kind = "json" /\ file' # file) =>
            KnownAtStart(file)
                \subseteq Range(file'.completed) \cup Range(file'.queued)]_vars

====
